---- MODULE Spec2Model ----
(***************************************************************************)
(* Model of the pod restart monitor (src/main.go): the polling loop of     *)
(* main with its dedup map notifiedRestarts, and the analyzePod goroutines *)
(* it starts, each blocking at its calls to the cluster API, the inference *)
(* endpoint and the Slack API.                                             *)
(*                                                                         *)
(* Strings the code inspects (logs, inference text, event reasons) are     *)
(* sequences of one-byte strings; time.Time values are naturals counted in *)
(* half minutes; a nil *metav1.Time is NoTime.                             *)
(***************************************************************************)
EXTENDS Integers, Sequences, FiniteSets, TLC

VARIABLES
    loopPc,            \* position of main's for loop: "list", "check", "spawn", "sleep"
    pods,              \* pods.Items of the current iteration (main.go:52)
    podIdx,            \* index of the range over pods.Items (main.go:58)
    csIdx,             \* index of the range over ContainerStatuses (main.go:59)
    notifiedRestarts,  \* the package-level map (main.go:31)
    tasks,             \* the analyzePod goroutines started so far, in start order
    channel,           \* messages the Slack API accepted
    nextTs,            \* the Slack API's message counter, source of the ts it returns
    listedSinceSleep,  \* history: List was called and time.Sleep has not run since
    oddFailures,       \* history: the List calls that failed since a List call last
                       \* returned items are odd in number
    lastLog,           \* history: the line main's loop logged in its last step
    input,             \* the arguments of a helper function called on its own
    output             \* <<>> before that call returns, <<value>> after

vars == <<loopPc, pods, podIdx, csIdx, notifiedRestarts, tasks, channel, nextTs,
          listedSinceSleep, oddFailures, lastLog, input, output>>

\* the variables of a helper function called on its own
fnVars == <<input, output>>

loopVars == <<loopPc, pods, podIdx, csIdx, notifiedRestarts, listedSinceSleep,
              oddFailures, lastLog>>

(***************************************************************************)
(* Bounds of the model.                                                    *)
(***************************************************************************)
MaxTime == 2
MaxContainers == 2
MaxEvents == 2
MaxLen == 3
MaxLimit == 4
MaxLines == 3

(***************************************************************************)
(* Program constants.                                                      *)
(***************************************************************************)
LogTruncateLimit == 1000
AnalysisTruncateLimit == 3000
Minute == 2

NoTime == 0
Times == 1..MaxTime
Namespaces == {"ns"}
Names == {"a", "b"}
NoThread == ""
ReplyTs == "reply"
\* no helper function is called on its own
NoInput == [fn |-> "none"]

(***************************************************************************)
(* Strings as byte sequences.                                              *)
(***************************************************************************)
NoResponseFromModel ==
    <<"N","o"," ","r","e","s","p","o","n","s","e"," ","f","r","o","m"," ",
      "m","o","d","e","l">>
TruncatedSuffix ==
    <<".", ".", ".", " ", "(", "t", "r", "u", "n", "c", "a", "t", "e", "d", ")">>
KubectlPrefix == <<"k","u","b","e","c","t","l"," ">>
BashPrefix == <<"b","a","s","h"," ">>
\* the byte 0x60, which a TLA+ string cannot hold
Backtick == "<backtick>"
OpenFence == <<Backtick, Backtick, Backtick, "b", "a", "s", "h">>
CloseFence == <<Backtick, Backtick, Backtick>>
Newline == "\n"
\* bytes a TLA+ string cannot hold or that are not ASCII are named by their
\* hexadecimal value, 0x0B by <vt>
VerticalTab == "<vt>"

\* the white space strings.TrimSpace removes, each as its UTF-8 bytes: the six
\* ASCII ones, U+0085, U+00A0, U+1680, U+2000 to U+200A, U+2028, U+2029,
\* U+202F, U+205F and U+3000 (unicode.IsSpace)
WhiteSpace ==
    {<<" ">>, <<"\t">>, <<"\n">>, <<VerticalTab>>, <<"\f">>, <<"\r">>,
     <<"<c2>", "<85>">>, <<"<c2>", "<a0>">>,
     <<"<e1>", "<9a>", "<80>">>,
     <<"<e2>", "<80>", "<a8>">>, <<"<e2>", "<80>", "<a9>">>,
     <<"<e2>", "<80>", "<af>">>, <<"<e2>", "<81>", "<9f>">>,
     <<"<e3>", "<80>", "<80>">>}
    \cup {<<"<e2>", "<80>", b>> :
            b \in {"<80>", "<81>", "<82>", "<83>", "<84>", "<85>", "<86>", "<87>",
                   "<88>", "<89>", "<8a>"}}

\* s[:n] for 0 <= n <= len(s)
Prefix(s, n) == SubSeq(s, 1, n)

\* strings.HasPrefix(s, p)
HasPrefix(s, p) == Len(s) >= Len(p) /\ Prefix(s, Len(p)) = p

\* s ends with the bytes of p
HasSuffix(s, p) == Len(s) >= Len(p) /\ SubSeq(s, Len(s) - Len(p) + 1, Len(s)) = p

\* strings.Join(lines, sep) with a one-byte separator
RECURSIVE Join(_, _)
Join(lines, sep) ==
    IF lines = <<>> THEN <<>>
    ELSE IF Len(lines) = 1 THEN lines[1]
    ELSE lines[1] \o <<sep>> \o Join(Tail(lines), sep)

\* strings.Split(text, "\n"): always at least one line
RECURSIVE Split(_, _)
Split(text, sep) ==
    IF \A k \in 1..Len(text) : text[k] # sep THEN <<text>>
    ELSE LET k == CHOOSE n \in 1..Len(text) :
                      text[n] = sep /\ \A m \in 1..(n - 1) : text[m] # sep
         IN  <<Prefix(text, k - 1)>> \o Split(SubSeq(text, k + 1, Len(text)), sep)

\* strings.TrimSpace(s): white space is removed rune by rune from the left,
\* then from the right; a byte that starts no white space rune stops the scan
RECURSIVE TrimLeft(_)
TrimLeft(s) ==
    IF \E w \in WhiteSpace : HasPrefix(s, w)
    THEN LET w == CHOOSE v \in WhiteSpace : HasPrefix(s, v)
         IN  TrimLeft(SubSeq(s, Len(w) + 1, Len(s)))
    ELSE s
RECURSIVE TrimRight(_)
TrimRight(s) ==
    IF \E w \in WhiteSpace : HasSuffix(s, w)
    THEN LET w == CHOOSE v \in WhiteSpace : HasSuffix(s, v)
         IN  TrimRight(Prefix(s, Len(s) - Len(w)))
    ELSE s
TrimSpace(s) == TrimRight(TrimLeft(s))

\* truncate cutting a string whose length is exactly the limit
truncateStrict(s, limit) ==
    IF Len(s) < limit THEN s ELSE Prefix(s, limit) \o TruncatedSuffix

\* truncate (main.go:243)
truncate(s, limit) ==
    IF Len(s) <= limit THEN s ELSE Prefix(s, limit) \o TruncatedSuffix

\* the test of main.go:223 without its second operand
IsKubectlLine(trimmed) == HasPrefix(trimmed, KubectlPrefix)

\* the test of main.go:223 on a trimmed line
IsCommandLine(trimmed) == HasPrefix(trimmed, KubectlPrefix) \/ HasPrefix(trimmed, BashPrefix)

\* the loop of formatCodeBlocks (main.go:221-239) over the lines still to read
RECURSIVE FormatLines(_, _)
FormatLines(lines, inCodeBlock) ==
    IF lines = <<>> THEN (IF inCodeBlock THEN <<CloseFence>> ELSE <<>>)
    ELSE LET trimmed == TrimSpace(Head(lines)) IN
         IF IsCommandLine(trimmed)
         THEN (IF inCodeBlock THEN <<>> ELSE <<OpenFence>>)
              \o <<trimmed>> \o FormatLines(Tail(lines), TRUE)
         ELSE (IF inCodeBlock THEN <<CloseFence>> ELSE <<>>)
              \o <<trimmed>> \o FormatLines(Tail(lines), FALSE)

\* formatCodeBlocks (main.go:216)
formatCodeBlocks(text) == Join(FormatLines(Split(text, Newline), FALSE), Newline)

\* "%s: %s" of main.go:211
EventLine(e) == e.reason \o <<":", " ">> \o e.message

\* formatEvents (main.go:208)
formatEvents(events) ==
    Join([k \in 1..Len(events) |-> EventLine(events[k])], Newline)

\* After as "not before": an equal time passes
NotBefore(t, u) == t >= u

\* After as "differs": an earlier time passes too
Differs(t, u) == t # u

\* time.Time.After
After(t, u) == t > u

\* the filter with a window closed at the restart: later events are dropped
RECURSIVE CorrelatedEventsUntilRestart(_, _, _)
CorrelatedEventsUntilRestart(items, podName, restartTime) ==
    IF items = <<>> THEN <<>>
    ELSE LET e == Head(items)
             rest == CorrelatedEventsUntilRestart(Tail(items), podName, restartTime)
         IN  IF e.involvedObject = podName
                /\ After(e.lastTimestamp, restartTime - Minute)
                /\ ~After(e.lastTimestamp, restartTime)
             THEN <<e>> \o rest
             ELSE rest

\* the filter of analyzePod (main.go:91-96), in listing order
RECURSIVE CorrelatedEvents(_, _, _)
CorrelatedEvents(items, podName, restartTime) ==
    IF items = <<>> THEN <<>>
    ELSE LET e == Head(items)
             rest == CorrelatedEvents(Tail(items), podName, restartTime)
         IN  IF e.involvedObject = podName
                /\ After(e.lastTimestamp, restartTime - Minute)
             THEN <<e>> \o rest
             ELSE rest

(***************************************************************************)
(* The cluster as the List call reports it.                                *)
(***************************************************************************)
\* cs.RestartCount: the code only tests it against 0
RestartCounts == {0, 1}

\* pod.Status.ContainerStatuses, each reduced to its RestartCount
ContainerStatusLists == UNION {[1..n -> RestartCounts] : n \in 0..MaxContainers}

PodValues ==
    [namespace : Namespaces, name : Names, startTime : Times \cup {NoTime},
     containerStatuses : ContainerStatusLists]

\* the key of main.go:61
Key(namespace, name) == namespace \o "/" \o name

\* the identities (namespace, name) of the pods of one listing, in listing
\* order: the API server lists every pod once
IdentityOrders ==
    {ids \in UNION {[1..n -> Namespaces \X Names] :
                      n \in 0..Cardinality(Namespaces \X Names)} :
        \A a, b \in 1..Len(ids) : a # b => ids[a] # ids[b]}

\* pods.Items
Listings ==
    UNION {{[k \in 1..Len(ids) |->
                [namespace |-> ids[k][1], name |-> ids[k][2],
                 startTime |-> status[k][1], containerStatuses |-> status[k][2]]] :
              status \in [1..Len(ids) -> (Times \cup {NoTime}) \X ContainerStatusLists]} :
           ids \in IdentityOrders}

\* the full-system runs watch a cluster of one pod with one container
SystemPod == "a"
SystemListings ==
    {<<>>} \cup
    {<<pod>> : pod \in [namespace : Namespaces, name : {SystemPod},
                        startTime : Times \cup {NoTime},
                        containerStatuses : [1..1 -> RestartCounts]]}

\* the next container status the two range loops reach from pod a, status b;
\* none when the outer loop is over
RECURSIVE NextPosition(_, _, _)
NextPosition(items, a, b) ==
    IF a > Len(items) THEN [done |-> TRUE, pod |-> 0, cs |-> 0]
    ELSE IF b <= Len(items[a].containerStatuses)
         THEN [done |-> FALSE, pod |-> a, cs |-> b]
         ELSE NextPosition(items, a + 1, 1)

\* the loop moves on to position p, or to time.Sleep when the ranges are over
Advance(items, a, b) ==
    LET p == NextPosition(items, a, b) IN
    IF p.done
    THEN loopPc' = "sleep" /\ pods' = <<>> /\ podIdx' = 0 /\ csIdx' = 0
    ELSE loopPc' = "check" /\ pods' = items /\ podIdx' = p.pod /\ csIdx' = p.cs

\* the dedup test left out: every observed restart counts as new
AnyRestart(map, key, restartTime) == TRUE

\* the condition of main.go:64
IsNewRestart(map, key, restartTime) ==
    key \notin DOMAIN map \/ After(restartTime, map[key])

\* the map write left out
MapKeep(map, key, value) == map

\* a map write that keeps an entry the key already has
MapSetIfAbsent(map, key, value) ==
    [k \in DOMAIN map \cup {key} |-> IF k \in DOMAIN map THEN map[k] ELSE value]

\* a map write that stores the zero time instead of the start time
MapSetZero(map, key, value) ==
    [k \in DOMAIN map \cup {key} |-> IF k = key THEN NoTime ELSE map[k]]

\* notifiedRestarts[key] = restartTime
MapSet(map, key, value) ==
    [k \in DOMAIN map \cup {key} |-> IF k = key THEN value ELSE map[k]]

\* a goroutine at the entry of analyzePod
NewTask(podName, namespace, restartTime) ==
    [podName |-> podName, namespace |-> namespace, restartTime |-> restartTime,
     pc |-> "GetLogs", logs |-> <<>>, events |-> <<>>, analysis |-> <<>>,
     threadTS |-> NoThread, inference |-> "", answer |-> "", posts |-> <<>>,
     taken |-> <<>>, log |-> ""]

(***************************************************************************)
(* main's for loop (main.go:51-73).                                        *)
(***************************************************************************)
\* a failed List call ending the process, as the failures of main.go:40 and
\* main.go:46 do
ListFailsFatal ==
    /\ loopPc = "list"
    /\ loopPc' = "exit"
    /\ lastLog' = "Error fetching pods"
    /\ listedSinceSleep' = TRUE
    /\ oddFailures' = ~oddFailures
    /\ UNCHANGED <<pods, podIdx, csIdx, notifiedRestarts, tasks, channel, nextTs>>
    /\ UNCHANGED fnVars

\* main.go:52-56: the List call fails, the error is logged, continue: the next
\* List call follows at once, and may fail as well
ListFails ==
    /\ loopPc = "list"
    /\ lastLog' = "Error fetching pods"
    /\ listedSinceSleep' = TRUE
    /\ oddFailures' = ~oddFailures
    /\ UNCHANGED <<loopPc, pods, podIdx, csIdx, notifiedRestarts, tasks, channel, nextTs>>
    /\ UNCHANGED fnVars

\* main.go:52, 58-59: the List call returns items
ListReturns(items) ==
    /\ loopPc = "list"
    /\ Advance(items, 1, 1)
    /\ lastLog' = ""
    /\ listedSinceSleep' = TRUE
    /\ oddFailures' = FALSE
    /\ UNCHANGED <<notifiedRestarts, tasks, channel, nextTs>>
    /\ UNCHANGED fnVars


\* main.go:59-66: one container status is examined
Check ==
    /\ loopPc = "check"
    /\ LET pod == pods[podIdx]
           cs == pod.containerStatuses[csIdx]
           key == Key(pod.namespace, pod.name)
       IN  IF cs > 0 /\ pod.startTime # NoTime
              /\ IsNewRestart(notifiedRestarts, key, pod.startTime)
           THEN /\ notifiedRestarts' = MapSet(notifiedRestarts, key, pod.startTime)
                /\ lastLog' = "Detected restart"
                /\ loopPc' = "spawn"
                /\ UNCHANGED <<pods, podIdx, csIdx>>
           ELSE /\ Advance(pods, podIdx, csIdx + 1)
                /\ lastLog' = ""
                /\ UNCHANGED notifiedRestarts
    /\ UNCHANGED <<tasks, channel, nextTs, listedSinceSleep, oddFailures>>
    /\ UNCHANGED fnVars

\* main.go:67: go analyzePod(...)
Spawn ==
    /\ loopPc = "spawn"
    /\ LET pod == pods[podIdx] IN
       tasks' = Append(tasks, NewTask(pod.name, pod.namespace, pod.startTime))
    /\ Advance(pods, podIdx, csIdx + 1)
    /\ lastLog' = ""
    /\ UNCHANGED <<notifiedRestarts, channel, nextTs, listedSinceSleep, oddFailures>>
    /\ UNCHANGED fnVars

\* a loop that joins the goroutines it started before it sleeps
SleepAfterJoin ==
    /\ loopPc = "sleep"
    /\ \A t \in 1..Len(tasks) : tasks[t].pc = "done"
    /\ loopPc' = "list"
    /\ listedSinceSleep' = FALSE
    /\ lastLog' = ""
    /\ UNCHANGED <<pods, podIdx, csIdx, notifiedRestarts, tasks, channel, nextTs,
                   oddFailures>>
    /\ UNCHANGED fnVars

\* main.go:72: time.Sleep(CHECK_INTERVAL) returns
Sleep ==
    /\ loopPc = "sleep"
    /\ loopPc' = "list"
    /\ listedSinceSleep' = FALSE
    /\ lastLog' = ""
    /\ UNCHANGED <<pods, podIdx, csIdx, notifiedRestarts, tasks, channel, nextTs,
                   oddFailures>>
    /\ UNCHANGED fnVars

\* the steps of the loop after a List call
Iterate == Check \/ Spawn \/ Sleep

(***************************************************************************)
(* What the collaborators may answer.                                      *)
(***************************************************************************)
\* the raw log tail GetLogs(...).DoRaw returns
LogOutputs == {<<"O", "O", "M">>}

EventReasons == {<<"K", "i", "l", "l">>}
EventMessages == {<<"o", "o", "m">>}

\* corev1.Event, reduced to the fields the code reads
\* e.LastTimestamp: from before the first start time to a minute after the
\* last one
EventTimes == 0..(MaxTime + Minute)

EventValues ==
    [involvedObject : Names, lastTimestamp : EventTimes,
     reason : EventReasons, message : EventMessages]

\* eventList.Items
EventLists == UNION {[1..n -> EventValues] : n \in 0..MaxEvents}

\* the full-system runs list one event of the watched pod, from before the
\* first start time or from the last one
SystemEventLists ==
    {<<e>> : e \in [involvedObject : {SystemPod}, lastTimestamp : {NoTime, MaxTime},
                    reason : EventReasons, message : EventMessages]}

\* the response text of the inference endpoint
ModelResponses ==
    {<<"k","u","b","e","c","t","l"," ","g","e","t"," ","p","o","d","s">>}

\* the outcome of the HTTP exchange with the inference endpoint: the transport
\* fails (main.go:133-142), the body is no JSON object (main.go:145), or it is
\* an object with or without a string under "response" (main.go:149)
OllamaReplies ==
    {[transportError |-> TRUE, decodes |-> FALSE, hasResponse |-> FALSE, response |-> <<>>],
     [transportError |-> FALSE, decodes |-> FALSE, hasResponse |-> FALSE, response |-> <<>>],
     [transportError |-> FALSE, decodes |-> TRUE, hasResponse |-> FALSE, response |-> <<>>]}
    \cup {[transportError |-> FALSE, decodes |-> TRUE, hasResponse |-> TRUE, response |-> r] :
            r \in ModelResponses}

\* what result["ts"] of a response body is (main.go:202): no string (the member
\* is missing or of another type, or the body is no JSON object), the empty
\* string, or the ts the API gave the message it took
TsMembers == {"absent", "empty", "message"}

\* the outcome of one chat.postMessage exchange. The transport fails before or
\* after the API took the message (main.go:186-190), or a body comes back: ok
\* is whether result["ok"] is the boolean true (main.go:197), which it is not
\* for ok = false and for a body that is unreadable, no JSON object or without
\* a boolean ok, whether or not the API took the message. The API answers
\* ok = true, and names the ts of a message, only for a message it took
SlackResults ==
    {result \in [transportError : BOOLEAN, delivered : BOOLEAN, ok : BOOLEAN,
                 ts : TsMembers] :
        /\ result.transportError => (~result.ok /\ result.ts = "absent")
        /\ result.ok => result.delivered
        /\ result.ts = "message" => result.delivered}

(***************************************************************************)
(* callOllama and the Slack helpers.                                       *)
(***************************************************************************)
\* callOllama falling back to the empty string
callOllamaEmptyFallback(reply) ==
    IF reply.transportError THEN [value |-> <<>>, err |-> TRUE]
    ELSE IF ~reply.decodes THEN [value |-> <<>>, err |-> TRUE]
    ELSE IF reply.hasResponse THEN [value |-> reply.response, err |-> FALSE]
    ELSE [value |-> <<>>, err |-> FALSE]

\* callOllama swallowing a transport failure
callOllamaIgnoresTransport(reply) ==
    IF reply.transportError THEN [value |-> NoResponseFromModel, err |-> FALSE]
    ELSE IF ~reply.decodes THEN [value |-> <<>>, err |-> TRUE]
    ELSE IF reply.hasResponse THEN [value |-> reply.response, err |-> FALSE]
    ELSE [value |-> NoResponseFromModel, err |-> FALSE]

\* callOllama (main.go:112-153): the value and whether err is non-nil
callOllama(reply) ==
    IF reply.transportError THEN [value |-> <<>>, err |-> TRUE]
    ELSE IF ~reply.decodes THEN [value |-> <<>>, err |-> TRUE]
    ELSE IF reply.hasResponse THEN [value |-> reply.response, err |-> FALSE]
    ELSE [value |-> NoResponseFromModel, err |-> FALSE]

\* the string under "ts" of a response body that has one, ts being the ts of
\* the message the API took
TsString(result, ts) == IF result.ts = "message" THEN ts ELSE ""

\* postToSlack without the test of main.go:197: the string under "ts" is
\* returned whatever the ok member says
postToSlackIgnoresOk(result, ts) ==
    IF result.transportError THEN NoThread
    ELSE IF result.ts # "absent" THEN TsString(result, ts)
    ELSE NoThread

\* the value postToSlack returns (main.go:186-205), ts being the ts of the
\* message the API took
postToSlack(result, ts) ==
    IF result.transportError THEN NoThread
    ELSE IF ~result.ok THEN NoThread
    ELSE IF result.ts # "absent" THEN TsString(result, ts)
    ELSE NoThread

\* the payload of sendMainSlackMessage (main.go:156-164)
MainPayload(podName, namespace, restartTime) ==
    [text |-> [block |-> "summary", header |-> <<podName, namespace, restartTime>>,
               body |-> <<>>],
     thread_ts |-> NoThread]

\* the payload of sendSlackThread (main.go:169-173)
ThreadPayload(threadTs, block, body) ==
    [text |-> [block |-> block, header |-> <<>>, body |-> body],
     thread_ts |-> threadTs]

\* the Slack API takes the message of a payload, or does not. It gives every
\* message it takes a ts; the model numbers the thread parents only, since the
\* ts of a reply is dropped by sendSlackThread (main.go:174)
Deliver(payload, result) ==
    IF result.delivered
    THEN IF payload.thread_ts = NoThread
         THEN /\ channel' = channel \cup
                     {[ts |-> ToString(nextTs), thread_ts |-> NoThread,
                       text |-> payload.text]}
              /\ nextTs' = nextTs + 1
         ELSE /\ channel' = channel \cup
                     {[ts |-> ReplyTs, thread_ts |-> payload.thread_ts,
                       text |-> payload.text]}
              /\ UNCHANGED nextTs
    ELSE UNCHANGED <<channel, nextTs>>

\* the goroutine returns, after logging line if it is not empty: the evidence
\* it held is gone. threadTS, inference, answer, posts and log stay as its
\* history
Return(task, line) ==
    [task EXCEPT !.pc = "done", !.log = line, !.logs = <<>>, !.events = <<>>,
                 !.analysis = <<>>]

\* history: the payloads a goroutine handed to postToSlack, in order, each
\* from the moment of the call
Posted(task, payload) == Append(task.posts, payload)

\* history: which answer the goroutine's inference request got
ReplyKind(reply) ==
    IF reply.transportError THEN "transport"
    ELSE IF ~reply.decodes THEN "undecodable"
    ELSE IF reply.hasResponse THEN "text"
    ELSE "no-field"

\* history: which answer the goroutine's summary post got
AnswerKind(result) ==
    IF result.transportError THEN "transport"
    ELSE IF ~result.ok THEN "not ok"
    ELSE IF result.ts = "message" THEN "ok with ts"
    ELSE IF result.ts = "empty" THEN "ok with empty ts"
    ELSE "ok without ts"

(***************************************************************************)
(* analyzePod (main.go:76-110), one step per blocking call; a Slack post is *)
(* two steps, the Slack API handling the request and the call returning.   *)
(***************************************************************************)
\* GetLogs without the return of main.go:82: the failure is logged and the
\* goroutine goes on with empty logs
GetLogsGoesOn(t) ==
    /\ tasks[t].pc = "GetLogs"
    /\ \/ tasks' = [tasks EXCEPT ![t].log = "Failed to get logs", ![t].pc = "ListEvents"]
       \/ \E out \in LogOutputs :
            tasks' = [tasks EXCEPT ![t].logs = out, ![t].pc = "ListEvents"]
    /\ UNCHANGED <<loopVars, fnVars, channel, nextTs>>

\* main.go:79-83
GetLogs(t) ==
    /\ tasks[t].pc = "GetLogs"
    /\ \/ tasks' = [tasks EXCEPT ![t] = Return(@, "Failed to get logs")]
       \/ \E out \in LogOutputs :
            tasks' = [tasks EXCEPT ![t].logs = out, ![t].pc = "ListEvents"]
    /\ UNCHANGED <<loopVars, fnVars, channel, nextTs>>

\* main.go:85-96
ListEvents(t, lists) ==
    /\ tasks[t].pc = "ListEvents"
    /\ \/ tasks' = [tasks EXCEPT ![t] = Return(@, "Failed to get events")]
       \/ \E items \in lists :
            tasks' = [tasks EXCEPT
                        ![t].events = CorrelatedEvents(items, tasks[t].podName,
                                                       tasks[t].restartTime),
                        ![t].pc = "callOllama"]
    /\ UNCHANGED <<loopVars, fnVars, channel, nextTs>>

\* CallOllama deleting the map entry of its pod when the inference fails, for a
\* later poll to dispatch the restart again
CallOllamaForgets(t) ==
    /\ tasks[t].pc = "callOllama"
    /\ \E reply \in OllamaReplies :
         LET r == callOllama(reply)
             key == Key(tasks[t].namespace, tasks[t].podName)
         IN  IF r.err
             THEN /\ tasks' = [tasks EXCEPT ![t] =
                                [Return(@, "Failed to analyze pod") EXCEPT
                                    !.inference = ReplyKind(reply)]]
                  /\ notifiedRestarts' =
                        [k \in DOMAIN notifiedRestarts \ {key} |-> notifiedRestarts[k]]
             ELSE /\ tasks' = [tasks EXCEPT ![t] =
                                [@ EXCEPT !.analysis = r.value, !.pc = "sendMain",
                                          !.inference = ReplyKind(reply)]]
                  /\ UNCHANGED notifiedRestarts
    /\ UNCHANGED <<loopPc, pods, podIdx, csIdx, listedSinceSleep, oddFailures, lastLog,
                   fnVars, channel, nextTs>>

\* main.go:98-102
CallOllama(t) ==
    /\ tasks[t].pc = "callOllama"
    /\ \E reply \in OllamaReplies :
         LET r == callOllama(reply) IN
         tasks' = [tasks EXCEPT ![t] =
                     IF r.err
                     THEN [Return(@, "Failed to analyze pod") EXCEPT
                             !.inference = ReplyKind(reply)]
                     ELSE [@ EXCEPT !.analysis = r.value, !.pc = "sendMain",
                                    !.inference = ReplyKind(reply)]]
    /\ UNCHANGED <<loopVars, fnVars, channel, nextTs>>

\* what the Slack API did with the request of the postToSlack call a goroutine
\* waits in (main.go:186): <<ts>> when it took the message and gave it ts
Taken(result, ts) == IF result.delivered THEN <<ts>> ELSE <<>>

\* the outcomes the call in flight may return with: those in which the API did
\* not take the message, or those in which it did
Answers(taken) == {result \in SlackResults : result.delivered = (taken # <<>>)}

\* the ts of the message the API took, when it took one
AnswerTs(taken) == IF taken # <<>> THEN taken[1] ELSE NoThread

\* main.go:104, 155-165, 177-186: sendMainSlackMessage hands the summary to
\* postToSlack, whose request the Slack API takes or does not take; the
\* goroutine waits in http.DefaultClient.Do
SendMain(t) ==
    /\ tasks[t].pc = "sendMain"
    /\ \E result \in SlackResults :
         LET payload == MainPayload(tasks[t].podName, tasks[t].namespace,
                                    tasks[t].restartTime)
         IN  /\ Deliver(payload, result)
             /\ tasks' = [tasks EXCEPT ![t] =
                            [@ EXCEPT !.posts = Posted(tasks[t], payload),
                                      !.taken = Taken(result, ToString(nextTs)),
                                      !.pc = "awaitMain"]]
    /\ UNCHANGED <<loopVars, fnVars>>

\* MainReturns without the test of main.go:105
MainReturnsUnguarded(t) ==
    /\ tasks[t].pc = "awaitMain"
    /\ \E result \in Answers(tasks[t].taken) :
         LET threadTS == postToSlack(result, AnswerTs(tasks[t].taken)) IN
         tasks' = [tasks EXCEPT ![t] =
                     [@ EXCEPT !.taken = <<>>, !.answer = AnswerKind(result),
                               !.threadTS = threadTS, !.pc = "sendEvents"]]
    /\ UNCHANGED <<loopVars, fnVars, channel, nextTs>>

\* main.go:186-205, 104-105: http.DefaultClient.Do returns, postToSlack returns
\* the thread reference or "", and analyzePod tests it
MainReturns(t) ==
    /\ tasks[t].pc = "awaitMain"
    /\ \E result \in Answers(tasks[t].taken) :
         LET threadTS == postToSlack(result, AnswerTs(tasks[t].taken))
             back == [tasks[t] EXCEPT !.taken = <<>>,
                                      !.answer = AnswerKind(result)]
         IN  tasks' = [tasks EXCEPT ![t] =
                         IF threadTS # NoThread
                         THEN [back EXCEPT !.threadTS = threadTS, !.pc = "sendEvents"]
                         ELSE Return(back, "")]
    /\ UNCHANGED <<loopVars, fnVars, channel, nextTs>>

\* sendSlackThread replying under the summary the Slack API took last, as a
\* thread reference kept in a package-level variable would make it do
SendThreadLatest(t, pc, block, body, next) ==
    /\ tasks[t].pc = pc
    /\ \E result \in SlackResults :
         LET payload == ThreadPayload(ToString(nextTs - 1), block, body)
         IN  /\ Deliver(payload, result)
             /\ tasks' = [tasks EXCEPT ![t] =
                            [@ EXCEPT !.posts = Posted(tasks[t], payload),
                                      !.taken = Taken(result, ReplyTs),
                                      !.pc = next]]
    /\ UNCHANGED <<loopVars, fnVars>>

\* one sendSlackThread call of main.go:106-108 (main.go:168-174, 177-186): the
\* reply is handed to postToSlack, whose request the Slack API takes or does
\* not take; the goroutine waits in http.DefaultClient.Do
SendThread(t, pc, block, body, next) ==
    /\ tasks[t].pc = pc
    /\ \E result \in SlackResults :
         LET payload == ThreadPayload(tasks[t].threadTS, block, body)
         IN  /\ Deliver(payload, result)
             /\ tasks' = [tasks EXCEPT ![t] =
                            [@ EXCEPT !.posts = Posted(tasks[t], payload),
                                      !.taken = Taken(result, ReplyTs),
                                      !.pc = next]]
    /\ UNCHANGED <<loopVars, fnVars>>

\* main.go:186-205, 174: http.DefaultClient.Do returns and postToSlack returns
\* a value that sendSlackThread drops, whatever the outcome; analyzePod goes on
\* to its next statement, or returns after the last one
ThreadReturns(t, pc, next) ==
    /\ tasks[t].pc = pc
    /\ \E result \in Answers(tasks[t].taken) :
         tasks' = [tasks EXCEPT ![t] =
                     IF next = "done" THEN Return([@ EXCEPT !.taken = <<>>], "")
                     ELSE [@ EXCEPT !.taken = <<>>, !.pc = next]]
    /\ UNCHANGED <<loopVars, fnVars, channel, nextTs>>

\* main.go:106: the events reply is handed over
SendEvents(t) ==
    SendThread(t, "sendEvents", "events", formatEvents(tasks[t].events), "awaitEvents")

\* main.go:106: the call returns
EventsReturn(t) == ThreadReturns(t, "awaitEvents", "sendLogs")

\* the logs reply sent before the events reply
SendLogsFirst(t) ==
    SendThread(t, "sendEvents", "logs", truncate(tasks[t].logs, LogTruncateLimit),
               "awaitLogs")

\* main.go:107: the logs reply is handed over
SendLogs(t) ==
    SendThread(t, "sendLogs", "logs", truncate(tasks[t].logs, LogTruncateLimit),
               "awaitLogs")

\* main.go:107: the call returns
LogsReturn(t) == ThreadReturns(t, "awaitLogs", "sendAnalysis")

\* main.go:108: the analysis reply is handed over
SendAnalysis(t) ==
    SendThread(t, "sendAnalysis", "analysis",
               formatCodeBlocks(truncate(tasks[t].analysis, AnalysisTruncateLimit)),
               "awaitAnalysis")

\* main.go:108-110: the call returns, and analyzePod with it
AnalysisReturns(t) == ThreadReturns(t, "awaitAnalysis", "done")

analyzePod(t) ==
    \/ GetLogs(t)
    \/ ListEvents(t, SystemEventLists)
    \/ CallOllama(t)
    \/ SendMain(t)
    \/ MainReturns(t)
    \/ SendEvents(t)
    \/ EventsReturn(t)
    \/ SendLogs(t)
    \/ LogsReturn(t)
    \/ SendAnalysis(t)
    \/ AnalysisReturns(t)

Tasks == \E t \in 1..Len(tasks) : analyzePod(t)

(***************************************************************************)
(* The program.                                                            *)
(***************************************************************************)
\* the program at the entry of main's for loop
Idle ==
    /\ loopPc = "list"
    /\ pods = <<>>
    /\ podIdx = 0
    /\ csIdx = 0
    /\ notifiedRestarts = [k \in {} |-> NoTime]
    /\ tasks = <<>>
    /\ channel = {}
    /\ nextTs = 1
    /\ listedSinceSleep = FALSE
    /\ oddFailures = FALSE
    /\ lastLog = ""

Init ==
    /\ Idle
    /\ input = NoInput
    /\ output = <<>>

\* main's loop over a cluster of one pod, and the goroutines it starts
SystemList == ListFails \/ \E items \in SystemListings : ListReturns(items)

Next == SystemList \/ Iterate \/ Tasks

Spec == Init /\ [][Next]_vars

\* the same, with main's loop always scheduled again and each of its own calls
\* returning; no goroutine is required to take a step
FairSpec == Spec /\ WF_vars(SystemList \/ Iterate)

\* the process from its start (main.go:33): the client configuration is
\* loaded and the clientset built before the loop is entered
ProcessInit ==
    /\ loopPc = "loadConfig"
    /\ pods = <<>>
    /\ podIdx = 0
    /\ csIdx = 0
    /\ notifiedRestarts = [k \in {} |-> NoTime]
    /\ tasks = <<>>
    /\ channel = {}
    /\ nextTs = 1
    /\ listedSinceSleep = FALSE
    /\ oddFailures = FALSE
    /\ lastLog = ""
    /\ input = NoInput
    /\ output = <<>>

\* main.go:34-42: the in-cluster configuration or the local kubeconfig is
\* found, or neither is and log.Fatalf ends the process
LoadConfig ==
    /\ loopPc = "loadConfig"
    /\ \/ loopPc' = "newClientset" /\ lastLog' = ""
       \/ loopPc' = "newClientset" /\ lastLog' = "In-cluster config not found"
       \/ loopPc' = "exit" /\ lastLog' = "Failed to load kubeconfig"
    /\ UNCHANGED <<pods, podIdx, csIdx, notifiedRestarts, tasks, channel, nextTs,
                   listedSinceSleep, oddFailures, fnVars>>

\* main.go:44-49: the clientset is built and the loop entered, or log.Fatalf
\* ends the process
NewClientset ==
    /\ loopPc = "newClientset"
    /\ \/ loopPc' = "list" /\ lastLog' = "Pod restart monitor started"
       \/ loopPc' = "exit" /\ lastLog' = "Failed to create clientset"
    /\ UNCHANGED <<pods, podIdx, csIdx, notifiedRestarts, tasks, channel, nextTs,
                   listedSinceSleep, oddFailures, fnVars>>

Bootstrap == LoadConfig \/ NewClientset

ProcessNext == Bootstrap \/ Next

\* the process with main's goroutine always scheduled again and each of its
\* own calls returning; no analyzePod goroutine is required to take a step
ProcessSpec == ProcessInit /\ [][ProcessNext]_vars
                  /\ WF_vars(Bootstrap \/ SystemList \/ Iterate)

\* main's loop alone, over any cluster within the bounds: every goroutine it
\* starts stays blocked in its first call
List == ListFails \/ \E items \in Listings : ListReturns(items)

DetectorNext == List \/ Iterate

Detector == Init /\ [][DetectorNext]_vars

(***************************************************************************)
(* Properties of the restart detector.                                     *)
(***************************************************************************)
\* the dedup key and start time a goroutine was started for
Incident(task) == <<Key(task.namespace, task.podName), task.restartTime>>

\* the pod and container status the loop stands at
CurrentPod == pods[podIdx]
CurrentRestartCount == CurrentPod.containerStatuses[csIdx]
CurrentKey == Key(CurrentPod.namespace, CurrentPod.name)

\* the pod is one main.go:60 lets through
Restarted(pod) ==
    pod.startTime # NoTime
    /\ \E c \in 1..Len(pod.containerStatuses) : pod.containerStatuses[c] > 0

\* C1: over the whole run no two analysis tasks are dispatched for the same
\* pair of dedup key and start time, whatever later polls observe.
AtMostOneDispatchPerRestart ==
    \A a, b \in 1..Len(tasks) : a # b => Incident(tasks[a]) # Incident(tasks[b])

\* C1 witness: the loop has examined pod 1 of this poll's listing, a restarted
\* pod whose incident was dispatched in an earlier poll (it is tasks[1], and
\* tasks[2] is the incident of pod 2, which this poll has not examined yet),
\* and it dispatched nothing for it.
SecondObservationDispatchedNothing ==
    /\ loopPc = "check"
    /\ Len(pods) = 2
    /\ podIdx = 2
    /\ csIdx = 1
    /\ Len(tasks) = 2
    /\ Restarted(pods[1])
    /\ Incident(tasks[1]) = <<Key(pods[1].namespace, pods[1].name), pods[1].startTime>>
    /\ Incident(tasks[2]) = <<Key(pods[2].namespace, pods[2].name), pods[2].startTime>>

\* C2: examining a container status with restartCount > 0 and a start time T
\* under key K writes T to the map and goes on to dispatch a task carrying
\* (K, T) exactly when K has no entry or T is strictly later than the entry;
\* in every other case the step dispatches nothing and leaves the map alone.
\* A task is dispatched by nothing else.
DispatchIffNewOrLater ==
    [][/\ loopPc = "check" =>
            IF /\ CurrentRestartCount > 0
               /\ CurrentPod.startTime # NoTime
               /\ \/ CurrentKey \notin DOMAIN notifiedRestarts
                  \/ CurrentPod.startTime > notifiedRestarts[CurrentKey]
            THEN /\ loopPc' = "spawn"
                 /\ DOMAIN notifiedRestarts' = DOMAIN notifiedRestarts \cup {CurrentKey}
                 /\ notifiedRestarts'[CurrentKey] = CurrentPod.startTime
                 /\ \A k \in DOMAIN notifiedRestarts \ {CurrentKey} :
                        notifiedRestarts'[k] = notifiedRestarts[k]
                 /\ tasks' = tasks
            ELSE /\ loopPc' # "spawn"
                 /\ notifiedRestarts' = notifiedRestarts
                 /\ tasks' = tasks
       /\ loopPc = "spawn" =>
            /\ Len(tasks') = Len(tasks) + 1
            /\ SubSeq(tasks', 1, Len(tasks)) = tasks
            /\ Incident(tasks'[Len(tasks')]) = <<CurrentKey, CurrentPod.startTime>>
            /\ tasks'[Len(tasks')].pc = "GetLogs"
            /\ notifiedRestarts[CurrentKey] = CurrentPod.startTime
            /\ notifiedRestarts' = notifiedRestarts
       /\ loopPc \notin {"check", "spawn"} =>
            /\ Len(tasks') = Len(tasks)
            /\ notifiedRestarts' = notifiedRestarts
      ]_vars

\* C2 witness: the scenario's end. A key was dispatched for T0 and later for
\* T1 > T0, and the map holds T1 for it.
LaterRestartDispatched ==
    \E a, b \in 1..Len(tasks) :
        /\ a < b
        /\ Incident(tasks[a])[1] = Incident(tasks[b])[1]
        /\ tasks[a].restartTime < tasks[b].restartTime
        /\ notifiedRestarts[Incident(tasks[b])[1]] = tasks[b].restartTime
\* C3: in every state, each analysis task that exists, whatever its position,
\* has an entry in the map under its key, holding its start time or a later one.
TaskHasMapEntry ==
    \A t \in 1..Len(tasks) :
        /\ Incident(tasks[t])[1] \in DOMAIN notifiedRestarts
        /\ notifiedRestarts[Incident(tasks[t])[1]] >= tasks[t].restartTime

\* C3 witness: a finished task of start time T, a task of a later start time
\* still at its first call, and the map holding the later time.
FinishedTaskUnderLaterEntry ==
    \E a, b \in 1..Len(tasks) :
        /\ tasks[a].pc = "done"
        /\ tasks[b].pc = "GetLogs"
        /\ Incident(tasks[a])[1] = Incident(tasks[b])[1]
        /\ tasks[a].restartTime < tasks[b].restartTime
        /\ notifiedRestarts[Incident(tasks[b])[1]] = tasks[b].restartTime

\* C4: a List call is made only when time.Sleep has run since the previous
\* List call (or when none was made); and a List call that fails is logged,
\* examines no pod, dispatches nothing and leaves the map alone.
ListingAttemptsSeparatedByWait ==
    [][loopPc = "list" =>
          /\ ~listedSinceSleep
          /\ lastLog' = "Error fetching pods" =>
                /\ loopPc' \notin {"check", "spawn"}
                /\ tasks' = tasks
                /\ notifiedRestarts' = notifiedRestarts
      ]_vars
(***************************************************************************)
(* Properties of one analyzePod goroutine.                                 *)
(***************************************************************************)
\* the blocks of the payloads a goroutine handed to postToSlack, in order
Blocks(task) == [k \in 1..Len(task.posts) |-> task.posts[k].text.block]

AllBlocks == <<"summary", "events", "logs", "analysis">>

\* the positions of a goroutine before a Slack post, and inside one
Sending == {"sendMain", "sendEvents", "sendLogs", "sendAnalysis"}
Awaiting == {"awaitMain", "awaitEvents", "awaitLogs", "awaitAnalysis"}

\* the messages of the channel that stand in a thread
Replies(threadTs) == {m \in channel : m.thread_ts = threadTs}

\* C5: a task whose log fetch or event listing failed has ended, has issued no
\* inference request and has handed no message to the Slack API.
EvidenceFailureAbandonsIncident ==
    \A t \in 1..Len(tasks) :
        tasks[t].log \in {"Failed to get logs", "Failed to get events"} =>
            /\ tasks[t].pc = "done"
            /\ tasks[t].inference = ""
            /\ tasks[t].posts = <<>>

\* C5 witness: one task ended at the failed log fetch, another at the failed
\* event listing, and the channel is empty.
BothEvidenceFailuresSeen ==
    /\ \E t \in 1..Len(tasks) : tasks[t].log = "Failed to get logs"
    /\ \E t \in 1..Len(tasks) : tasks[t].log = "Failed to get events"
    /\ channel = {}

\* C6 as claimed: a reply without the response field, and a reply that cannot
\* be decoded, are both answered by the literal and do not fail the incident.
FallbackForAbsentOrUndecodable ==
    \A t \in 1..Len(tasks) :
        tasks[t].inference \in {"no-field", "undecodable"} =>
            /\ tasks[t].log # "Failed to analyze pod"
            /\ tasks[t].pc \in Sending \cup Awaiting =>
                  tasks[t].analysis = NoResponseFromModel

\* C6 amended: a decoded reply without a string response field is answered by
\* the literal and does not fail the incident: the task goes on to the
\* summary post and, whenever it sends the analysis reply, that reply's text
\* is the literal. A reply that cannot be decoded fails the incident like a
\* transport failure: the task ends having posted nothing.
FallbackForAbsentField ==
    \A t \in 1..Len(tasks) :
        /\ tasks[t].inference = "no-field" =>
              /\ tasks[t].log = ""
              /\ tasks[t].pc \in Sending \cup Awaiting =>
                    tasks[t].analysis = NoResponseFromModel
              /\ tasks[t].pc = "done" => Len(tasks[t].posts) >= 1
              /\ Len(tasks[t].posts) = 4 =>
                    /\ tasks[t].posts[4].text.block = "analysis"
                    /\ tasks[t].posts[4].text.body = NoResponseFromModel
              /\ \A m \in Replies(tasks[t].threadTS) :
                    (tasks[t].threadTS # NoThread /\ m.text.block = "analysis") =>
                        m.text.body = NoResponseFromModel
        /\ tasks[t].inference = "undecodable" =>
              /\ tasks[t].pc = "done"
              /\ tasks[t].log = "Failed to analyze pod"
              /\ tasks[t].posts = <<>>

\* C6 witness: a task answered without the response field has posted the
\* summary and the three replies, the channel holds its analysis reply with
\* the literal, and another task was answered by an undecodable body.
FallbackAnalysisPosted ==
    \E t, u \in 1..Len(tasks) :
        /\ tasks[t].inference = "no-field"
        /\ tasks[t].pc = "done"
        /\ Blocks(tasks[t]) = AllBlocks
        /\ \E m \in Replies(tasks[t].threadTS) :
              m.text.block = "analysis" /\ m.text.body = NoResponseFromModel
        /\ tasks[u].inference = "undecodable"

\* C7: a task whose inference request failed in transport has ended, logged
\* the failure and handed no message to the Slack API.
TransportFailureAbortsIncident ==
    \A t \in 1..Len(tasks) :
        tasks[t].inference = "transport" =>
            /\ tasks[t].pc = "done"
            /\ tasks[t].log = "Failed to analyze pod"
            /\ tasks[t].posts = <<>>

\* C7 witness: a task ended at the transport failure while the channel is empty.
TransportFailureSeen ==
    /\ \E t \in 1..Len(tasks) : tasks[t].inference = "transport"
    /\ channel = {}

\* C8: a task whose summary post returned the empty thread reference has ended
\* with the summary as its only post; a task that holds no reference, its
\* summary post not yet returned or returned empty, has handed over nothing but
\* the summary; and every reply a task posts carries a thread reference.
EmptyReferenceSkipsReplies ==
    \A t \in 1..Len(tasks) :
        /\ (tasks[t].answer # "" /\ tasks[t].threadTS = NoThread) =>
              /\ tasks[t].pc = "done"
              /\ Blocks(tasks[t]) = <<"summary">>
        /\ (tasks[t].posts # <<>> /\ tasks[t].threadTS = NoThread) =>
              /\ tasks[t].pc \in {"awaitMain", "done"}
              /\ Blocks(tasks[t]) = <<"summary">>
        /\ \A k \in 2..Len(tasks[t].posts) : tasks[t].posts[k].thread_ts # NoThread

\* C8 witness: a task ended after a summary post that returned the empty
\* reference although the API took the message, and the channel holds no
\* reply at all.
SummaryWithoutReference ==
    /\ \E t \in 1..Len(tasks) :
          /\ tasks[t].pc = "done"
          /\ tasks[t].answer # ""
          /\ Len(tasks[t].posts) = 1
          /\ tasks[t].threadTS = NoThread
    /\ channel # {}
    /\ \A m \in channel : m.text.block = "summary"

\* C9: the posts of a task are, in order, a prefix of summary, events, logs,
\* analysis; the position of the task is the post after that prefix, or the
\* wait for the last post of the prefix to return; a task that ended after a
\* summary post that returned a reference has made all four, whatever became
\* of the replies; and a step hands over one post at most, of a task that
\* waits for no earlier post to return.
PostsInFixedOrder ==
    /\ [](\A t \in 1..Len(tasks) :
            LET n == Len(tasks[t].posts) IN
            /\ Blocks(tasks[t]) = SubSeq(AllBlocks, 1, n)
            /\ tasks[t].pc = "sendMain" => n = 0
            /\ tasks[t].pc \in {"awaitMain", "sendEvents"} => n = 1
            /\ tasks[t].pc \in {"awaitEvents", "sendLogs"} => n = 2
            /\ tasks[t].pc \in {"awaitLogs", "sendAnalysis"} => n = 3
            /\ tasks[t].pc = "awaitAnalysis" => n = 4
            /\ (tasks[t].pc = "done" /\ tasks[t].threadTS # NoThread) => n = 4)
    /\ [][\A t \in 1..Len(tasks) :
            tasks'[t].posts # tasks[t].posts =>
                /\ tasks[t].pc \in Sending
                /\ tasks[t].taken = <<>>
                /\ tasks'[t].pc \in Awaiting
                /\ Len(tasks'[t].posts) = Len(tasks[t].posts) + 1
          ]_vars

\* C9 witness: a task has made all four posts although the API took neither
\* its events reply nor its logs reply; its analysis reply is in the channel.
AllRepliesDespiteFailure ==
    \E t \in 1..Len(tasks) :
        /\ tasks[t].pc = "done"
        /\ Blocks(tasks[t]) = AllBlocks
        /\ {m.text.block : m \in Replies(tasks[t].threadTS)} = {"analysis"}
(***************************************************************************)
(* Properties of the loop and its goroutines together.                     *)
(***************************************************************************)
\* the loop stands at a container status that main.go:60-64 takes for a new
\* restart of key at restartTime
NewRestartObserved(key, restartTime) ==
    /\ loopPc = "check"
    /\ CurrentKey = key
    /\ CurrentPod.startTime = restartTime
    /\ CurrentRestartCount > 0
    /\ key \in DOMAIN notifiedRestarts => restartTime > notifiedRestarts[key]

Dispatched(key, restartTime) ==
    \E t \in 1..Len(tasks) : Incident(tasks[t]) = <<key, restartTime>>

\* C10: whatever the goroutines do, and also when none of them ever takes
\* another step, the loop makes its List call again and again, and a new
\* restart it observes gets its task.
LoopNeverWaitsForTasks ==
    /\ []<><<SystemList>>_vars
    /\ \A namespace \in Namespaces, restartTime \in Times :
          NewRestartObserved(Key(namespace, SystemPod), restartTime)
              ~> Dispatched(Key(namespace, SystemPod), restartTime)

\* C10 witness: the loop is back at its List call after a sleep, having
\* dispatched a second task while the first one had not returned: one task
\* waits for the inference endpoint, the other for its logs.
PollingWithBlockedTasks ==
    /\ loopPc = "list"
    /\ ~listedSinceSleep
    /\ Len(tasks) = 2
    /\ tasks[1].pc = "callOllama"
    /\ tasks[2].pc = "GetLogs"

(***************************************************************************)
(* Properties of the notifications in the channel.                         *)
(***************************************************************************)
\* the summary messages in the channel that report one restart
Summaries(podName, namespace, restartTime) ==
    {m \in channel : /\ m.text.block = "summary"
                     /\ m.text.header = <<podName, namespace, restartTime>>}

\* the tasks that handed a summary for one restart to the Slack API
Reporters(podName, namespace, restartTime) ==
    {t \in 1..Len(tasks) :
        /\ Incident(tasks[t]) = <<Key(namespace, podName), restartTime>>
        /\ tasks[t].posts # <<>>}

\* C11: for every pair of dedup key and start time, at most one task ever
\* hands a summary to the Slack API, it hands over one summary only, and the
\* channel holds at most one summary message for the pair; every summary in
\* the channel comes from such a task.
AtMostOneSummaryPerRestart ==
    /\ \A namespace \in Namespaces, name \in Names, restartTime \in Times :
          /\ Cardinality(Summaries(name, namespace, restartTime)) <= 1
          /\ Cardinality(Reporters(name, namespace, restartTime)) <= 1
    /\ \A t \in 1..Len(tasks) :
          Cardinality({k \in 1..Len(tasks[t].posts) :
                          tasks[t].posts[k].text.block = "summary"}) <= 1
    /\ \A m \in channel :
          m.text.block = "summary" =>
              Reporters(m.text.header[1], m.text.header[2], m.text.header[3]) # {}

\* C11 witness: in a later poll the loop stands at a restarted container of a
\* pod whose restart, of the same start time, already has its summary in the
\* channel and its task ended; no second task exists for it.
ReportedRestartSeenAgain ==
    /\ loopPc = "check"
    /\ CurrentRestartCount > 0
    /\ Summaries(CurrentPod.name, CurrentPod.namespace, CurrentPod.startTime) # {}
    /\ \E t \in 1..Len(tasks) :
          /\ Incident(tasks[t]) = <<CurrentKey, CurrentPod.startTime>>
          /\ tasks[t].pc = "done"
          /\ Blocks(tasks[t]) = AllBlocks

(***************************************************************************)
(* The helper functions called on their own.                               *)
(***************************************************************************)
\* the bytes of the strings handed to truncate
Bytes == {"x", "y"}

\* a string is its bytes: len(s) and s[:limit] count bytes (main.go:244-247)
Strings == UNION {[1..n -> Bytes] : n \in 0..MaxLen}

TruncateInputs == [fn : {"truncate"}, s : Strings, limit : 0..MaxLimit]

TruncateInit ==
    /\ Idle
    /\ input \in TruncateInputs
    /\ output = <<>>

\* truncate(s, limit) returns
TruncateCall ==
    /\ input.fn = "truncate"
    /\ output = <<>>
    /\ output' = <<truncate(input.s, input.limit)>>
    /\ UNCHANGED <<loopVars, tasks, channel, nextTs, input>>

TruncateSpec == TruncateInit /\ [][TruncateCall]_vars

\* C12: truncate returns s itself when len(s) <= limit; otherwise the result
\* has limit + 15 bytes, its first limit bytes are those of s and the 15 bytes
\* after them spell "... (truncated)".
TruncateKeepsOrCuts ==
    output # <<>> =>
        LET s == input.s
            limit == input.limit
            result == output[1]
        IN  /\ Len(s) <= limit => result = s
            /\ Len(s) > limit =>
                  /\ Len(TruncatedSuffix) = 15
                  /\ Len(result) = limit + 15
                  /\ \A k \in 1..limit : result[k] = s[k]
                  /\ \A k \in 1..15 : result[limit + k] = TruncatedSuffix[k]

\* C12 witness: a string of three bytes was cut at limit 2 into 17 bytes.
StringCutAtLimit ==
    /\ input.fn = "truncate"
    /\ Len(input.s) = 3
    /\ input.limit = 2
    /\ output # <<>>
    /\ Len(output[1]) = 17

\* lines of an inference text: commands, an indented command ending in a
\* carriage return, a command inside Unicode white space, the bare word
\* kubectl, prose and the empty line
KubectlGetPods == KubectlPrefix \o <<"g","e","t"," ","p","o","d","s">>
KubectlDescribePodX ==
    KubectlPrefix \o <<"d","e","s","c","r","i","b","e"," ","p","o","d"," ","x">>
IndentedBashLine == <<" ", " ">> \o BashPrefix \o <<"l", "s", "\r">>
\* a command after a no-break space (U+00A0) and before a vertical tab and an
\* em space (U+2003)
PaddedKubectlLine ==
    <<"<c2>", "<a0>">> \o KubectlGetPods \o <<VerticalTab, "<e2>", "<80>", "<83>">>
BareKubectl == <<"k","u","b","e","c","t","l">>
DoneLine == <<"d","o","n","e">>

TextLines ==
    {KubectlGetPods, KubectlDescribePodX, IndentedBashLine, PaddedKubectlLine,
     BareKubectl, DoneLine, <<>>}

FormatInputs ==
    {[fn |-> "formatCodeBlocks", text |-> Join(lines, Newline)] :
        lines \in UNION {[1..n -> TextLines] : n \in 1..MaxLines}}

FormatInit ==
    /\ Idle
    /\ input \in FormatInputs
    /\ output = <<>>

\* formatCodeBlocks(text) returns
FormatCall ==
    /\ input.fn = "formatCodeBlocks"
    /\ output = <<>>
    /\ output' = <<formatCodeBlocks(input.text)>>
    /\ UNCHANGED <<loopVars, tasks, channel, nextTs, input>>

FormatSpec == FormatInit /\ [][FormatCall]_vars

\* the concatenation of a sequence of sequences
RECURSIVE Flatten(_)
Flatten(seqs) == IF seqs = <<>> THEN <<>> ELSE Head(seqs) \o Flatten(Tail(seqs))

\* a line is recognized: its trimmed content starts with "kubectl " or "bash "
Recognized(line) ==
    LET trimmed == TrimSpace(line) IN
    \/ (Len(trimmed) >= 8 /\ SubSeq(trimmed, 1, 8) = KubectlPrefix)
    \/ (Len(trimmed) >= 5 /\ SubSeq(trimmed, 1, 5) = BashPrefix)

\* the lines of a text that are equal to a given line
Occurrences(lines, line) == {k \in 1..Len(lines) : lines[k] = line}

\* C13: the output lines are the trimmed input lines, in order, with the
\* opening fence before a recognized line exactly when it is the first line or
\* follows a line that is not recognized, and the closing fence after a
\* recognized line exactly when it is the last line or precedes a line that is
\* not recognized: one pair of fences per maximal run and no other fence. The
\* example of the spec comes out as stated.
OneFencePairPerRun ==
    output # <<>> =>
        LET lines == Split(input.text, Newline)
            n == Len(lines)
            Opens(k) == Recognized(lines[k]) /\ (k = 1 \/ ~Recognized(lines[k - 1]))
            Closes(k) == Recognized(lines[k]) /\ (k = n \/ ~Recognized(lines[k + 1]))
            Piece(k) == (IF Opens(k) THEN <<OpenFence>> ELSE <<>>)
                        \o <<TrimSpace(lines[k])>>
                        \o (IF Closes(k) THEN <<CloseFence>> ELSE <<>>)
            runs == {k \in 1..n : Opens(k)}
            out == Split(output[1], Newline)
        IN  /\ out = Flatten([k \in 1..n |-> Piece(k)])
            /\ Cardinality(Occurrences(out, OpenFence)) = Cardinality(runs)
            /\ Cardinality(Occurrences(out, CloseFence)) = Cardinality(runs)
            /\ lines = <<KubectlGetPods, KubectlDescribePodX, DoneLine>> =>
                  out = <<OpenFence, KubectlGetPods, KubectlDescribePodX,
                          CloseFence, DoneLine>>

\* C13 witness: the text of two runs, the first one a command inside Unicode
\* white space and the second one, at the end of the input, the indented
\* command, came out trimmed and with two pairs of fences.
TwoRunsFenced ==
    /\ input.fn = "formatCodeBlocks"
    /\ Split(input.text, Newline) = <<PaddedKubectlLine, DoneLine, IndentedBashLine>>
    /\ output # <<>>
    /\ Split(output[1], Newline) =
          <<OpenFence, KubectlGetPods, CloseFence, DoneLine,
            OpenFence, BashPrefix \o <<"l", "s">>, CloseFence>>

(***************************************************************************)
(* Properties of the shared state.                                         *)
(***************************************************************************)
\* C14: a step of an analysis task (a task changes, none is added) leaves the
\* map and every other variable of the loop as they are; and the map changes
\* only in the loop's step at main.go:64-65, which changes no task and posts
\* nothing. So the loop is the only thread of control that touches the map.
MapTouchedByLoopOnly ==
    [][/\ (Len(tasks') = Len(tasks) /\ tasks' # tasks) =>
            /\ notifiedRestarts' = notifiedRestarts
            /\ loopVars' = loopVars
       /\ notifiedRestarts' # notifiedRestarts =>
            /\ loopPc = "check"
            /\ loopPc' = "spawn"
            /\ tasks' = tasks
            /\ channel' = channel
      ]_vars

\* C14 witness: the loop stands at a container of a pod, about to read the map
\* entry of the pod's key, while the task of that pod is between its logs
\* reply and its analysis reply; the entry is the one the loop wrote.
TaskRunsWhileLoopReadsMap ==
    /\ loopPc = "check"
    /\ \E t \in 1..Len(tasks) :
          /\ tasks[t].pc = "sendAnalysis"
          /\ Incident(tasks[t])[1] = CurrentKey
          /\ notifiedRestarts[CurrentKey] = tasks[t].restartTime

(***************************************************************************)
(* Properties of the summary post and its thread.                          *)
(***************************************************************************)
\* the summary messages in the channel that report the restart of a task
SummariesOf(task) == Summaries(task.podName, task.namespace, task.restartTime)

Starting == loopPc \in {"loadConfig", "newClientset"}

\* C16: the process ends only from its bootstrap: once the loop is entered no
\* step ends it, whatever the List call, the log fetch, the event listing, the
\* inference endpoint and the Slack API answer; a process that ended has never
\* listed, dispatched or posted; and a process that entered the loop makes
\* its List call again and again.
OnlyBootstrapFailuresAreFatal ==
    /\ [][(~Starting /\ loopPc # "exit") => loopPc' # "exit"]_vars
    /\ [](loopPc = "exit" =>
            /\ ~listedSinceSleep
            /\ tasks = <<>>
            /\ channel = {}
            /\ DOMAIN notifiedRestarts = {})
    /\ []((~Starting /\ loopPc # "exit") => <>(loopPc = "list"))

\* C16 witness: the loop has just logged a failed List call and stays at its
\* List call, after the inference request of one task failed in transport and
\* the summary post of the other failed in transport.
PollingAfterEveryFailure ==
    /\ loopPc = "list"
    /\ lastLog = "Error fetching pods"
    /\ Len(tasks) = 2
    /\ tasks[1].inference = "transport"
    /\ tasks[2].answer = "transport"
    /\ tasks[2].pc = "done"

\* C17: the summary of a task is posted with no thread reference; every reply
\* of a task carries the reference the task's own summary post returned, which
\* is the ts of the summary message of its own incident and of no other
\* message, and which no other task holds; and every reply in the channel
\* stands under the summary of the task that posted it.
RepliesCarryOwnReference ==
    /\ \A t \in 1..Len(tasks) :
          /\ tasks[t].posts # <<>> => tasks[t].posts[1].thread_ts = NoThread
          /\ \A k \in 2..Len(tasks[t].posts) :
                /\ tasks[t].threadTS # NoThread
                /\ tasks[t].posts[k].thread_ts = tasks[t].threadTS
          /\ tasks[t].threadTS # NoThread =>
                /\ \A m \in channel :
                      (m.thread_ts = NoThread /\ m.ts = tasks[t].threadTS) =>
                          m \in SummariesOf(tasks[t])
                /\ \E m \in SummariesOf(tasks[t]) : m.ts = tasks[t].threadTS
                /\ \A u \in 1..Len(tasks) :
                      u # t => tasks[u].threadTS # tasks[t].threadTS
    /\ \A m \in channel :
          m.thread_ts # NoThread =>
              \E t \in 1..Len(tasks) :
                  /\ tasks[t].threadTS = m.thread_ts
                  /\ \E k \in 2..Len(tasks[t].posts) : tasks[t].posts[k].text = m.text

\* C17 witness: two tasks ran interleaved: the second one dispatched got its
\* summary posted first, the first one was still posting its replies after
\* that, and both threads are complete in the channel.
InterleavedThreads ==
    /\ Len(tasks) = 2
    /\ tasks[1].pc = "done"
    /\ tasks[2].pc = "done"
    /\ tasks[1].threadTS = "2"
    /\ tasks[2].threadTS = "1"
    /\ \A t \in 1..2 :
          {m.text.block : m \in Replies(tasks[t].threadTS)} = {"events", "logs", "analysis"}

(***************************************************************************)
(* Properties of the map over time.                                        *)
(***************************************************************************)
\* C18: no step removes a key from the map, and no step lowers the start time
\* stored for a key: a step that changes the entry of a key replaces it by a
\* strictly later time.
MapOnlyGrows ==
    [][/\ DOMAIN notifiedRestarts \subseteq DOMAIN notifiedRestarts'
       /\ \A k \in DOMAIN notifiedRestarts :
             /\ notifiedRestarts'[k] >= notifiedRestarts[k]
             /\ notifiedRestarts'[k] # notifiedRestarts[k] =>
                   notifiedRestarts'[k] > notifiedRestarts[k]
      ]_vars

\* C18 witness: the map holds both keys; the entry of one was replaced by a
\* later start time (two tasks were dispatched for it), and the loop now
\* stands at a restarted container of that pod reported with the earlier
\* start time again.
EarlierStartTimeSeenAfterUpdate ==
    /\ loopPc = "check"
    /\ CurrentRestartCount > 0
    /\ Cardinality(DOMAIN notifiedRestarts) = 2
    /\ CurrentKey \in DOMAIN notifiedRestarts
    /\ CurrentPod.startTime # NoTime
    /\ CurrentPod.startTime < notifiedRestarts[CurrentKey]
    /\ Dispatched(CurrentKey, CurrentPod.startTime)
    /\ Dispatched(CurrentKey, notifiedRestarts[CurrentKey])

(***************************************************************************)
(* The event filter called on its own.                                     *)
(***************************************************************************)
\* eventList.Items of the incident's namespace, the pod and its start time
FilterInputs ==
    [fn : {"CorrelatedEvents"}, items : EventLists, podName : Names,
     restartTime : Times]

FilterInit ==
    /\ Idle
    /\ input \in FilterInputs
    /\ output = <<>>

\* the loop of main.go:91-96 ends
FilterCall ==
    /\ input.fn = "CorrelatedEvents"
    /\ output = <<>>
    /\ output' = <<CorrelatedEvents(input.items, input.podName, input.restartTime)>>
    /\ UNCHANGED <<loopVars, tasks, channel, nextTs, input>>

FilterSpec == FilterInit /\ [][FilterCall]_vars

\* C19: the events kept are those at the positions of the listing whose
\* involved-object name is the pod's name and whose last timestamp is
\* strictly after the start time minus one minute, each at the rank its
\* position has among those positions; so an event of the pod at or after the
\* start time, however late, is kept, and one at exactly the start time minus
\* one minute is dropped.
EventsFromOneMinuteBefore ==
    output # <<>> =>
        LET items == input.items
            events == output[1]
            kept == {k \in 1..Len(items) :
                        /\ items[k].involvedObject = input.podName
                        /\ items[k].lastTimestamp > input.restartTime - Minute}
            Rank(k) == Cardinality({j \in kept : j <= k})
        IN  /\ Len(events) = Cardinality(kept)
            /\ \A k \in kept : events[Rank(k)] = items[k]
            /\ \A k \in 1..Len(items) :
                  items[k].involvedObject = input.podName =>
                      /\ items[k].lastTimestamp >= input.restartTime =>
                            \E n \in 1..Len(events) : events[n] = items[k]
                      /\ items[k].lastTimestamp = input.restartTime - Minute =>
                            \A n \in 1..Len(events) : events[n] # items[k]

\* C19 witness: of two events of the pod, the first one at exactly the start
\* time minus one minute and the second one later than the start time, only
\* the second was kept.
LateEventKeptBoundaryEventDropped ==
    /\ input.fn = "CorrelatedEvents"
    /\ Len(input.items) = 2
    /\ input.items[1].involvedObject = input.podName
    /\ input.items[1].lastTimestamp = input.restartTime - Minute
    /\ input.items[2].involvedObject = input.podName
    /\ input.items[2].lastTimestamp > input.restartTime
    /\ output = <<(<<input.items[2]>>)>>

(***************************************************************************)
(* Properties of one pass over the containers of a pod.                    *)
(***************************************************************************)
\* a container of the current pod before the current one has restartCount > 0
EarlierContainerRestarted ==
    \E c \in 1..(csIdx - 1) : CurrentPod.containerStatuses[c] > 0

\* C20: in the pass of one poll over the containers of a pod, a task is
\* dispatched at most at the first container with restartCount > 0; a
\* dispatch leaves the pod's start time in the map, and at every further
\* container of the pod the map holds a start time that is not earlier than
\* the pod's, so that the step dispatches nothing and leaves the map alone.
OneDispatchPerPodPerPoll ==
    /\ [](loopPc = "spawn" => ~EarlierContainerRestarted)
    /\ []((/\ loopPc = "check"
           /\ CurrentPod.startTime # NoTime
           /\ EarlierContainerRestarted) =>
              /\ CurrentKey \in DOMAIN notifiedRestarts
              /\ notifiedRestarts[CurrentKey] >= CurrentPod.startTime)
    /\ [][/\ (loopPc = "check" /\ EarlierContainerRestarted) =>
               /\ loopPc' # "spawn"
               /\ tasks' = tasks
               /\ notifiedRestarts' = notifiedRestarts
          /\ (loopPc = "spawn" /\ loopPc' = "check" /\ podIdx' = podIdx) =>
               notifiedRestarts'[CurrentKey] = CurrentPod.startTime
         ]_vars

\* C20 witness: the first pod of the listing has two containers with
\* restartCount > 0; its restart was dispatched once, the map holds its start
\* time, and the loop stands at its second container.
SecondRestartedContainerOfPod ==
    /\ loopPc = "check"
    /\ podIdx = 1
    /\ csIdx = 2
    /\ CurrentPod.containerStatuses[1] > 0
    /\ CurrentPod.containerStatuses[2] > 0
    /\ Len(tasks) = 1
    /\ Incident(tasks[1]) = <<CurrentKey, CurrentPod.startTime>>
    /\ notifiedRestarts[CurrentKey] = CurrentPod.startTime

====
